---------------------------- MODULE Spec2Model ----------------------------
(***************************************************************************)
(* Model of the Volleyball game: the simulation tick of GameCanvas         *)
(* (physics, collisions, opponent controller, scoring), the App component  *)
(* (phase, score, round-reset timer, commentary display) and the           *)
(* commentary service generateCommentary.                                  *)
(*                                                                         *)
(* Numbers.  The program computes in IEEE doubles.  The model computes in  *)
(* fixed point: every length and velocity is an integer number of          *)
(* 1/Scale pixels, products are rounded to the nearest unit (RDiv) and     *)
(* Math.sqrt is the integer square root.  Comparisons of a distance with a *)
(* radius are made on the squares, so they are exact.  A division 0/0      *)
(* yields NaN in the program; the ball record carries a nan flag for it.   *)
(*                                                                         *)
(* React.  A state setter called in a handler takes effect with the        *)
(* re-render that follows the handler, and the effects of that render run  *)
(* before the next animation frame or timer.  Each action below is one     *)
(* handler together with that re-render: the values a handler reads from   *)
(* its closure (gameState, score) are the unprimed variables.              *)
(***************************************************************************)
EXTENDS Integers, Sequences, FiniteSets, TLC

VARIABLES
    player,         \* playerRef.current : [x, y, vx, vy, onGround]
    cpu,            \* cpuRef.current    : [x, y, vx, vy, onGround]
    ball,           \* ballRef.current   : [x, y, vx, vy, nan]
    keys,           \* keysRef.current   : the set of key codes held down
    scoreRef,       \* scoreRef.current  : [player, cpu]
    gameState,      \* App state gameState
    score,          \* App state score   : [player, cpu]
    commentary,     \* App state commentary : [text, mood]
    isCommentating, \* App state isCommentating
    timerPending,   \* the setTimeout of the round-reset effect is armed
    ai,             \* geminiService: the client was created at module load
    issued,         \* the calls of generateCommentary so far, in order
    pending,        \* indices into issued of the calls not yet settled
    settled,        \* the calls settled so far, in order of completion
    ticks,          \* number of PLAYING ticks executed
    keyEvents,      \* number of keyboard events delivered
    lastOp          \* the handler that ran last

vars == <<player, cpu, ball, keys, scoreRef, gameState, score, commentary,
          isCommentating, timerPending, ai, issued, pending, settled,
          ticks, keyEvents, lastOp>>

gameVars == <<player, cpu, ball, keys, scoreRef, gameState, score,
              timerPending, ticks, keyEvents>>

-----------------------------------------------------------------------------
(* Bounds of the exploration *)

MaxTicks     == 144   \* PLAYING ticks explored
MaxPoints    == 2     \* points played
MaxKeyEvents == 2     \* keyboard events delivered
\* keyboard events are delivered before the PLAYING ticks number
\* InputPhase and InputPhase + InputGap, and every InputPeriod ticks after
\* each of the two
InputPeriod  == 33
InputPhase   == 3
InputGap     == 8

-----------------------------------------------------------------------------
(* Numbers *)

Scale == 100          \* model units per pixel
NormScale == 1000     \* a unit normal has length NormScale

Abs(a) == IF a < 0 THEN -a ELSE a
Max(a, b) == IF a >= b THEN a ELSE b

\* a / b rounded to the nearest integer (b > 0)
RDiv(a, b) == (2 * a + b) \div (2 * b)

RECURSIVE SqrtIter(_, _, _)
SqrtIter(n, lo, hi) ==
    IF lo >= hi THEN lo
    ELSE LET mid == (lo + hi + 1) \div 2
         IN  IF mid * mid <= n THEN SqrtIter(n, mid, hi)
                               ELSE SqrtIter(n, lo, mid - 1)

\* Math.sqrt, rounded down
Sqrt(n) == SqrtIter(n, 0, 46340)

-----------------------------------------------------------------------------
(* Physics constants, GameCanvas.tsx 12-21 *)

GRAVITY       == Scale \div 2
JUMP_FORCE    == -12 * Scale
MOVE_SPEED    == 6 * Scale
CANVAS_WIDTH  == 800 * Scale
CANVAS_HEIGHT == 400 * Scale
NET_HEIGHT    == 100 * Scale
NET_X         == CANVAS_WIDTH \div 2
PLAYER_RADIUS == 40 * Scale
BALL_RADIUS   == 12 * Scale
\* BOUNCE = 0.7: v * BOUNCE
Bounce(v)     == RDiv(v * 7, 10)
\* the net post radius, the literal 5 of lines 198, 211, 217, 220, 221
NET_POST      == 5 * Scale
\* MOVE_SPEED * 0.85
CPU_SPEED     == RDiv(MOVE_SPEED * 85, 100)

MENU         == "MENU"
PLAYING      == "PLAYING"
POINT_SCORED == "POINT_SCORED"
GAME_OVER    == "GAME_OVER"
GameState    == {MENU, PLAYING, POINT_SCORED, GAME_OVER}

-----------------------------------------------------------------------------
(* Key state, GameCanvas.tsx 49-59 and 99-103 *)

\* the key codes the exploration presses
PressedCodes == {"ArrowLeft", "ArrowRight", "ArrowUp"}

LeftHeld(k)  == "ArrowLeft" \in k \/ "KeyA" \in k
RightHeld(k) == "ArrowRight" \in k \/ "KeyD" \in k
UpHeld(k)    == "ArrowUp" \in k \/ "KeyW" \in k

-----------------------------------------------------------------------------
(* resetPositions, GameCanvas.tsx 35-47 *)

ResetBody(x) ==
    [x |-> x, y |-> CANVAS_HEIGHT, vx |-> 0, vy |-> 0, onGround |-> TRUE]

ServeX(server) == IF server = "player" THEN 200 * Scale ELSE 600 * Scale

\* Serve toss: the ball starts at y = 250 with velocity (0, -9)
ServeBall(server) ==
    [x |-> ServeX(server), y |-> 250 * Scale, vx |-> 0, vy |-> -9 * Scale,
     nan |-> FALSE]

-----------------------------------------------------------------------------
(* update: player movement, GameCanvas.tsx 98-106 *)

\* faulty variant of PlayerMovement: the jump does not test onGround
PlayerMovement_AirJump(p, k) ==
    LET vx == IF LeftHeld(k) THEN -MOVE_SPEED
              ELSE IF RightHeld(k) THEN MOVE_SPEED
              ELSE 0
        jump == UpHeld(k)
    IN  [p EXCEPT !.vx = vx,
                  !.vy = IF jump THEN JUMP_FORCE ELSE @,
                  !.onGround = IF jump THEN FALSE ELSE @]

PlayerMovement(p, k) ==
    LET vx == IF LeftHeld(k) THEN -MOVE_SPEED
              ELSE IF RightHeld(k) THEN MOVE_SPEED
              ELSE 0
        jump == UpHeld(k) /\ p.onGround
    IN  [p EXCEPT !.vx = vx,
                  !.vy = IF jump THEN JUMP_FORCE ELSE @,
                  !.onGround = IF jump THEN FALSE ELSE @]

(* update: CPU AI, GameCanvas.tsx 108-140.  Every comparison with a NaN   *)
(* ball position is false.                                                 *)

CpuTargetX(b) ==
    IF ~b.nan /\ b.x > NET_X - 50 * Scale THEN b.x + 20 * Scale
                                          ELSE 650 * Scale

\* faulty variant of CpuJumps: the cpu need not be on the ground
CpuJumps_NoGround(c, b) ==
    /\ ~b.nan
    /\ b.x > NET_X
    /\ Abs(b.x - c.x) < 50 * Scale
    /\ b.y > 200 * Scale
    /\ b.y < 350 * Scale

\* faulty variant of CpuJumps: a body at rest vertically is taken to be on
\* the ground
CpuJumps_AtRest(c, b) ==
    /\ ~b.nan
    /\ b.x > NET_X
    /\ Abs(b.x - c.x) < 50 * Scale
    /\ b.y > 200 * Scale
    /\ b.y < 350 * Scale
    /\ c.vy = 0

CpuJumps(c, b) ==
    /\ ~b.nan
    /\ b.x > NET_X
    /\ Abs(b.x - c.x) < 50 * Scale
    /\ b.y > 200 * Scale
    /\ b.y < 350 * Scale
    /\ c.onGround

CpuAI(c, b) ==
    LET diff == CpuTargetX(b) - c.x
        vx   == IF Abs(diff) > 5 * Scale
                THEN (IF diff > 0 THEN CPU_SPEED ELSE -CPU_SPEED)
                ELSE 0
        jump == CpuJumps(c, b)
    IN  [c EXCEPT !.vx = vx,
                  !.vy = IF jump THEN JUMP_FORCE ELSE @,
                  !.onGround = IF jump THEN FALSE ELSE @]

(* update: physics of player and cpu, GameCanvas.tsx 144-166 *)

Integrate(p) ==
    [p EXCEPT !.vy = p.vy + GRAVITY, !.x = p.x + p.vx,
              !.y = p.y + p.vy + GRAVITY]

FloorCollision(p) ==
    IF p.y > CANVAS_HEIGHT
    THEN [p EXCEPT !.y = CANVAS_HEIGHT, !.vy = 0, !.onGround = TRUE]
    ELSE p

WallCollision(p) ==
    LET x1 == IF p.x < PLAYER_RADIUS THEN PLAYER_RADIUS ELSE p.x
        x2 == IF x1 > CANVAS_WIDTH - PLAYER_RADIUS
              THEN CANVAS_WIDTH - PLAYER_RADIUS ELSE x1
    IN  [p EXCEPT !.x = x2]

\* faulty variant of NetCollisionPlayer: the net does not stop the player
NetCollisionPlayer_None(p) == p

\* the net is a wall for the bodies: the player stays left, the cpu right
NetCollisionPlayer(p) ==
    IF p.x > NET_X - PLAYER_RADIUS THEN [p EXCEPT !.x = NET_X - PLAYER_RADIUS]
                                   ELSE p

NetCollisionCpu(p) ==
    IF p.x < NET_X + PLAYER_RADIUS THEN [p EXCEPT !.x = NET_X + PLAYER_RADIUS]
                                   ELSE p

PlayerPhysics(p) == NetCollisionPlayer(WallCollision(FloorCollision(Integrate(p))))
CpuPhysics(p)    == NetCollisionCpu(WallCollision(FloorCollision(Integrate(p))))

(* update: ball physics, GameCanvas.tsx 168-190.  A NaN ball stays NaN and *)
(* fails every comparison.                                                 *)

\* v * 0.995
Drag(v) == RDiv(v * 995, 1000)

BallIntegrate(b) ==
    LET vx == Drag(b.vx)
        vy == Drag(b.vy + RDiv(GRAVITY * 8, 10))
    IN  [b EXCEPT !.vx = vx, !.vy = vy, !.x = b.x + vx, !.y = b.y + vy]

WallBounce(b) ==
    LET b1 == IF b.x < BALL_RADIUS
              THEN [b EXCEPT !.x = BALL_RADIUS, !.vx = -Bounce(b.vx)]
              ELSE b
    IN  IF b1.x > CANVAS_WIDTH - BALL_RADIUS
        THEN [b1 EXCEPT !.x = CANVAS_WIDTH - BALL_RADIUS, !.vx = -Bounce(b1.vx)]
        ELSE b1

CeilingBounce(b) ==
    IF b.y < BALL_RADIUS
    THEN [b EXCEPT !.y = BALL_RADIUS, !.vy = -Bounce(b.vy)]
    ELSE b

(* update: net collision of the ball, GameCanvas.tsx 192-223 *)

NetTop == CANVAS_HEIGHT - NET_HEIGHT

\* distToNetTop < ball.radius + 5, compared on the squares
HitsNetTop(b) ==
    LET dx == b.x - NET_X
        dy == b.y - NetTop
        r  == BALL_RADIUS + NET_POST
    IN  Abs(dx) < r /\ Abs(dy) < r /\ dx * dx + dy * dy < r * r

ReflectOnNetTop(b) ==
    LET dx  == b.x - NET_X
        dy  == b.y - NetTop
        len == Sqrt(dx * dx + dy * dy)
    IN  IF dx = 0 /\ dy = 0
        THEN [b EXCEPT !.nan = TRUE]      \* nx = 0/0
        ELSE LET l   == Max(len, 1)
                 nx  == RDiv(dx * NormScale, l)
                 ny  == RDiv(dy * NormScale, l)
                 dot == RDiv(b.vx * nx + b.vy * ny, NormScale)
                 pen == (BALL_RADIUS + NET_POST) - l
             IN  [b EXCEPT
                    !.vx = Bounce(b.vx - RDiv(2 * dot * nx, NormScale)),
                    !.vy = Bounce(b.vy - RDiv(2 * dot * ny, NormScale)),
                    !.x  = b.x + RDiv(nx * pen, NormScale),
                    !.y  = b.y + RDiv(ny * pen, NormScale)]

HitsNetSide(b) ==
    b.y > NetTop /\ Abs(b.x - NET_X) < BALL_RADIUS + NET_POST

BounceOnNetSide(b) ==
    [b EXCEPT !.vx = -Bounce(b.vx),
              !.x  = IF b.x < NET_X THEN NET_X - BALL_RADIUS - NET_POST
                                    ELSE NET_X + BALL_RADIUS + NET_POST]

NetCollisionBall(b) ==
    IF HitsNetTop(b) THEN ReflectOnNetTop(b)
    ELSE IF HitsNetSide(b) THEN BounceOnNetSide(b)
    ELSE b

BallPhysics(b) ==
    IF b.nan THEN b
    ELSE NetCollisionBall(CeilingBounce(WallBounce(BallIntegrate(b))))

(* checkCircleCollision, GameCanvas.tsx 62-88: c1 a body, c2 the ball *)

Collides(c1, c2) ==
    LET dx == c1.x - c2.x
        dy == c1.y - c2.y
        r  == PLAYER_RADIUS + BALL_RADIUS
    IN  ~c2.nan /\ Abs(dx) < r /\ Abs(dy) < r /\ dx * dx + dy * dy < r * r

\* faulty variant of PopForce: no minimum
PopForce_NoFloor(c2) ==
    RDiv(Sqrt(c2.vx * c2.vx + c2.vy * c2.vy) * 11, 10)

\* Math.max(14, speed * 1.1), speed the magnitude of c2.vel
PopForce(c2) ==
    Max(14 * Scale, RDiv(Sqrt(c2.vx * c2.vx + c2.vy * c2.vy) * 11, 10))

CheckCircleCollision(c1, c2) ==
    IF ~Collides(c1, c2) THEN c2
    ELSE LET dx   == c1.x - c2.x
             dy   == c1.y - c2.y
             dist == Sqrt(dx * dx + dy * dy)
         IN  IF dx = 0 /\ dy = 0
             THEN [c2 EXCEPT !.nan = TRUE]     \* nx = 0/0
             ELSE LET d       == Max(dist, 1)
                      nx      == RDiv(dx * NormScale, d)
                      ny      == RDiv(dy * NormScale, d)
                      force   == PopForce(c2)
                      overlap == (PLAYER_RADIUS + BALL_RADIUS) - d
                  IN  [c2 EXCEPT
                         !.vx = RDiv(-nx * force, NormScale) + RDiv(c1.vx, 2),
                         !.vy = RDiv(-ny * force, NormScale) + RDiv(c1.vy, 2)
                                - 4 * Scale,
                         !.x  = c2.x - RDiv(nx * overlap, NormScale),
                         !.y  = c2.y - RDiv(ny * overlap, NormScale)]

(* One pass of update up to the scoring test, GameCanvas.tsx 98-227: the   *)
(* bodies and the ball after collision resolution.                         *)

\* faulty variant of MovedCpu: the controller runs after the physics, its
\* velocity moves the cpu in the next tick
MovedCpu_Late(c, b) == CpuAI(CpuPhysics(c), b)

MovedPlayer(p, k) == PlayerPhysics(PlayerMovement(p, k))
MovedCpu(c, b)    == CpuPhysics(CpuAI(c, b))
MovedBall(p, c, b, k) ==
    CheckCircleCollision(MovedCpu(c, b),
        CheckCircleCollision(MovedPlayer(p, k), BallPhysics(b)))

(* update: scoring, GameCanvas.tsx 229-248 *)

\* faulty variant of ReachedFloor: the ball's radius is left out
ReachedFloor_Centre(b) == ~b.nan /\ b.y >= CANVAS_HEIGHT

\* ball.pos.y >= CANVAS_HEIGHT - ball.radius
ReachedFloor(b) == ~b.nan /\ b.y >= CANVAS_HEIGHT - BALL_RADIUS

\* who scores when the ball b is on the floor
Winner(b) == IF b.x < NET_X THEN "cpu" ELSE "player"

\* faulty variant of Server: the winner of the point serves
Server_WinnerServes(w) == w

\* the argument of resetPositions after a point of w
Server(w) == IF w = "cpu" THEN "player" ELSE "cpu"

\* faulty variant of AddPoint: the point is counted for both sides
AddPoint_Both(s, w) == [player |-> s.player + 1, cpu |-> s.cpu + 1]

AddPoint(s, w) ==
    IF w = "cpu" THEN [s EXCEPT !.cpu = @ + 1] ELSE [s EXCEPT !.player = @ + 1]

-----------------------------------------------------------------------------
(* generateCommentary, geminiService.ts 14-63 *)

Moods == {"excited", "sarcastic", "neutral", "encouraging"}

\* what the remote call of lines 33-55 can come to
\*   "ok"         response.text is JSON of the response schema
\*   "transport"  ai.models.generateContent rejects
\*   "empty"      response.text is empty: line 53 throws
\*   "unparsable" JSON.parse of line 55 throws
Outcomes == {"ok", "transport", "empty", "unparsable"}
Failures == Outcomes \ {"ok"}

\* how a call came out: without a client no remote call is made
CallKind(client, outcome) == IF client THEN outcome ELSE "noClient"

\* A commentary text is a pair <<string, n>>: n = 0 for the fixed texts of
\* the program, n = i for the text the service generates for the i-th call.
WelcomeText  == <<"Willkommen am Strand! Wer holt sich den Sieg?", 0>>
NoClientText == <<"AI Commentary unavailable (Check API Key).", 0>>
OfflineText  == <<"Was fuer ein Spiel! (AI Offline)", 0>>
ReplyText(i) == <<"generated", i>>

\* faulty variant of GenerateCommentary: no try/catch around the remote call
GenerateCommentary_Throws(client, outcome, mood, reply) ==
    IF ~client
    THEN [settles |-> "resolved",
          value |-> [text |-> NoClientText, mood |-> "neutral"]]
    ELSE IF outcome = "ok"
    THEN [settles |-> "resolved", value |-> [text |-> reply, mood |-> mood]]
    ELSE [settles |-> "rejected",
          value |-> [text |-> OfflineText, mood |-> "neutral"]]

\* The promise generateCommentary returns, as [settles, value].  client is
\* the module variable ai; outcome, mood and reply are the remote call's.
GenerateCommentary(client, outcome, mood, reply) ==
    IF ~client
    THEN [settles |-> "resolved",
          value |-> [text |-> NoClientText, mood |-> "neutral"]]
    ELSE IF outcome = "ok"
    THEN [settles |-> "resolved", value |-> [text |-> reply, mood |-> mood]]
    ELSE [settles |-> "resolved",
          value |-> [text |-> OfflineText, mood |-> "neutral"]]

-----------------------------------------------------------------------------
(* App, part_000 6-36 *)

\* faulty variant of RoundResetEffect: the effect has no dependency list, so
\* every render cancels the timer, and only a change of phase arms one
RoundResetEffect_NoDeps(old, new, armed) ==
    new # old /\ new = POINT_SCORED

\* The round-reset effect (lines 13-20, dependencies [gameState]) over a
\* render that takes gameState from old to new: the armed state of its timer.
RoundResetEffect(old, new, armed) ==
    IF new = old THEN armed            \* dependencies unchanged: no re-run
    ELSE new = POINT_SCORED            \* cleanup, then a new timer or none

\* the event description of line 23
EventDescription(winner) ==
    IF winner = "player" THEN "Mr. B erzielt einen Punkt mit einem Smash!"
                         ELSE "Soeren sein Vater ueberlistet Mr. B!"

\* faulty variant of CommentaryArgs: the score of the closure is passed on
\* as it is
CommentaryArgs_Stale(s, winner) ==
    [playerScore |-> s.player, cpuScore |-> s.cpu,
     lastEvent |-> EventDescription(winner)]

\* the arguments handlePointEnd passes to generateCommentary (line 29); s is
\* the score of the render whose closure runs
CommentaryArgs(s, winner) ==
    [playerScore |-> s.player + (IF winner = "player" THEN 1 ELSE 0),
     cpuScore    |-> s.cpu + (IF winner = "cpu" THEN 1 ELSE 0),
     lastEvent   |-> EventDescription(winner)]

\* faulty variant of DisplayAfter: a fallback response is not displayed
DisplayAfter_SkipsFallback(shown, r) ==
    IF r.settles = "resolved" /\ r.value.text[2] # 0 THEN r.value ELSE shown

\* handlePointEnd after the await (lines 30-35): the commentary displayed
\* once promise r has settled
DisplayAfter(shown, r) ==
    IF r.settles = "resolved" THEN r.value ELSE shown

-----------------------------------------------------------------------------
(* The state after construction: the refs of GameCanvas.tsx 28-32 after    *)
(* the mount effect resetPositions('player') of lines 374-376, the App     *)
(* state of part_000 7-10, and the client of geminiService.ts 4-12.        *)

Init ==
    /\ player = ResetBody(200 * Scale)
    /\ cpu = ResetBody(600 * Scale)
    /\ ball = ServeBall("player")
    /\ keys = {}
    /\ scoreRef = [player |-> 0, cpu |-> 0]
    /\ gameState = MENU
    /\ score = [player |-> 0, cpu |-> 0]
    /\ commentary = [text |-> WelcomeText, mood |-> "excited"]
    /\ isCommentating = FALSE
    /\ timerPending = FALSE
    /\ ai \in BOOLEAN
    /\ issued = <<>>
    /\ pending = {}
    /\ settled = <<>>
    /\ ticks = 0
    /\ keyEvents = 0
    /\ lastOp = "init"

Points == scoreRef.player + scoreRef.cpu

-----------------------------------------------------------------------------
(* Keyboard handlers, GameCanvas.tsx 51-52 *)

KeyboardReady ==
    /\ keyEvents < MaxKeyEvents
    /\ \/ ticks % InputPeriod = InputPhase % InputPeriod
       \/ ticks % InputPeriod = (InputPhase + InputGap) % InputPeriod

HandleKeyDown(code) ==
    /\ KeyboardReady
    /\ code \notin keys
    /\ keys' = keys \cup {code}
    /\ keyEvents' = keyEvents + 1
    /\ lastOp' = "keydown"
    /\ UNCHANGED <<player, cpu, ball, scoreRef, gameState, score, commentary,
                   isCommentating, timerPending, ai, issued, pending, settled,
                   ticks>>

HandleKeyUp(code) ==
    /\ KeyboardReady
    /\ code \in keys
    /\ keys' = keys \ {code}
    /\ keyEvents' = keyEvents + 1
    /\ lastOp' = "keyup"
    /\ UNCHANGED <<player, cpu, ball, scoreRef, gameState, score, commentary,
                   isCommentating, timerPending, ai, issued, pending, settled,
                   ticks>>

(* The start button, GameCanvas.tsx 388-397: rendered in MENU only *)

StartGame ==
    /\ gameState = MENU
    /\ gameState' = PLAYING
    /\ timerPending' = RoundResetEffect(gameState, PLAYING, timerPending)
    /\ lastOp' = "start"
    /\ UNCHANGED <<player, cpu, ball, keys, scoreRef, score, commentary,
                   isCommentating, ai, issued, pending, settled, ticks,
                   keyEvents>>

\* faulty variant of RoundResetTimer: the delay leads back to the menu
RoundResetTimer_ToMenu ==
    /\ timerPending
    /\ gameState' = MENU
    /\ timerPending' = RoundResetEffect(gameState, MENU, FALSE)
    /\ lastOp' = "timer"
    /\ UNCHANGED <<player, cpu, ball, keys, scoreRef, score, commentary,
                   isCommentating, ai, issued, pending, settled, ticks,
                   keyEvents>>

(* The timer callback of the round-reset effect, part_000 15-17 *)

RoundResetTimer ==
    /\ timerPending
    /\ gameState' = PLAYING
    /\ timerPending' = RoundResetEffect(gameState, PLAYING, FALSE)
    /\ lastOp' = "timer"
    /\ UNCHANGED <<player, cpu, ball, keys, scoreRef, score, commentary,
                   isCommentating, ai, issued, pending, settled, ticks,
                   keyEvents>>

(* One animation frame: update, GameCanvas.tsx 91-250, called by the loop  *)
(* of lines 361-371.                                                       *)

\* faulty variant of PointScored: the tick awaits the commentary, the serve
\* reset and the change of phase are left to the continuation
PointScored_Awaits(b1) ==
    LET w == Winner(b1)
    IN  /\ scoreRef' = AddPoint(scoreRef, w)
        /\ score' = scoreRef'
        /\ isCommentating' = TRUE
        /\ issued' = Append(issued, CommentaryArgs(score, w))
        /\ pending' = pending \cup {Len(issued) + 1}
        /\ player' = MovedPlayer(player, keys)
        /\ cpu' = MovedCpu(cpu, ball)
        /\ ball' = b1
        /\ UNCHANGED <<gameState, timerPending>>

\* the scoring branch of update for the ball b1 on the floor
PointScored(b1) ==
    LET w == Winner(b1)
    IN  /\ scoreRef' = AddPoint(scoreRef, w)
        /\ score' = scoreRef'                       \* setScore
        \* onPointEnd(w): handlePointEnd up to its await
        /\ isCommentating' = TRUE
        /\ issued' = Append(issued, CommentaryArgs(score, w))
        /\ pending' = pending \cup {Len(issued) + 1}
        \* resetPositions
        /\ player' = ResetBody(200 * Scale)
        /\ cpu' = ResetBody(600 * Scale)
        /\ ball' = ServeBall(Server(w))
        /\ gameState' = POINT_SCORED
        /\ timerPending' = RoundResetEffect(gameState, POINT_SCORED, timerPending)

\* faulty variant of Tick: update lacks the phase guard of line 92
Tick_Unguarded ==
    /\ ticks < MaxTicks
    /\ Points < MaxPoints
    /\ ticks' = ticks + 1
    /\ lastOp' = IF gameState = PLAYING THEN "tick" ELSE "idle"
    /\ LET b1 == MovedBall(player, cpu, ball, keys)
       IN  IF ReachedFloor(b1)
           THEN PointScored(b1)
           ELSE /\ player' = MovedPlayer(player, keys)
                /\ cpu' = MovedCpu(cpu, ball)
                /\ ball' = b1
                /\ UNCHANGED <<scoreRef, score, isCommentating, issued,
                               pending, gameState, timerPending>>
    /\ UNCHANGED <<keys, commentary, ai, settled, keyEvents>>

Tick ==
    IF gameState # PLAYING
    THEN /\ lastOp' = "idle"
         /\ UNCHANGED <<player, cpu, ball, keys, scoreRef, gameState, score,
                        commentary, isCommentating, timerPending, ai, issued,
                        pending, settled, ticks, keyEvents>>
    ELSE /\ ticks < MaxTicks
         /\ Points < MaxPoints
         /\ ticks' = ticks + 1
         /\ lastOp' = "tick"
         /\ LET b1 == MovedBall(player, cpu, ball, keys)
            IN  IF ReachedFloor(b1)
                THEN PointScored(b1)
                ELSE /\ player' = MovedPlayer(player, keys)
                     /\ cpu' = MovedCpu(cpu, ball)
                     /\ ball' = b1
                     /\ UNCHANGED <<scoreRef, score, isCommentating, issued,
                                    pending, gameState, timerPending>>
         /\ UNCHANGED <<keys, commentary, ai, settled, keyEvents>>

(* The continuation of handlePointEnd for call i, part_000 29-35, when the *)
(* promise of generateCommentary settles.                                  *)

CommentaryArrives(i, outcome, mood) ==
    /\ i \in pending
    /\ LET r == GenerateCommentary(ai, outcome, mood, ReplyText(i))
       IN  /\ commentary' = DisplayAfter(commentary, r)
           /\ settled' = Append(settled,
                  [call |-> i, kind |-> CallKind(ai, outcome), result |-> r])
    /\ isCommentating' = FALSE
    /\ pending' = pending \ {i}
    \* the re-render leaves gameState as it is
    /\ timerPending' = RoundResetEffect(gameState, gameState, timerPending)
    /\ lastOp' = "commentary"
    /\ UNCHANGED <<player, cpu, ball, keys, scoreRef, gameState, score,
                   ai, issued, ticks, keyEvents>>

\* the remote call's mood matters for an "ok" outcome only
MoodsOf(outcome) == IF outcome = "ok" THEN Moods ELSE {"neutral"}

Next ==
    \/ StartGame
    \/ \E code \in PressedCodes : HandleKeyDown(code)
    \/ \E code \in PressedCodes : HandleKeyUp(code)
    \/ Tick
    \/ RoundResetTimer
    \/ \E i \in pending, outcome \in Outcomes :
           \E mood \in MoodsOf(outcome) : CommentaryArrives(i, outcome, mood)

Spec == Init /\ [][Next]_vars

\* the timer of the round-reset effect fires 2000 ms after it was armed
FairSpec == Spec /\ WF_vars(RoundResetTimer)

-----------------------------------------------------------------------------
(* Snapshots.  The claims about one pass of update as a function of its    *)
(* inputs are checked from synthetic snapshots of play: the bodies and the *)
(* ball are drawn from samples of the states a rally passes through, and   *)
(* one PLAYING tick is applied to each.                                    *)

\* a body k ticks after a jump from the floor: vy = -12 + k/2 and
\* y = 400 - 12 k + k (k + 1) / 4; on the floor for k = 0.  After 47 ticks
\* the body is back at y = 400 exactly, still falling and not yet grounded.
BodyAfterJump(x, k) ==
    IF k = 0 THEN ResetBody(x)
    ELSE [x |-> x, y |-> CANVAS_HEIGHT + k * JUMP_FORCE
                            + (k * (k + 1) * GRAVITY) \div 2,
          vx |-> 0, vy |-> JUMP_FORCE + k * GRAVITY, onGround |-> FALSE]

\* ticks since the jump in the sampled bodies: grounded, rising, falling,
\* about to land
SnapJumpTicks == {0, 8, 40, 46}

SnapPlayerX == {200}
SnapCpuX    == {600, 700}
SnapBallX   == {170, 200, 252, 390, 560, 600, 640}
SnapBallY   == {250, 300, 340, 380}
SnapBallVx  == {-10, 0, 8}
SnapBallVy  == {-6, 0, 14}
SnapKeys    == {{}, {"ArrowLeft"}, {"ArrowRight"}, {"ArrowUp"}}

SnapInit ==
    /\ player \in {BodyAfterJump(x * Scale, k) :
                       x \in SnapPlayerX, k \in SnapJumpTicks}
    /\ cpu \in {BodyAfterJump(x * Scale, k) :
                    x \in SnapCpuX, k \in SnapJumpTicks}
    /\ ball \in {[x |-> x * Scale, y |-> y * Scale, vx |-> vx * Scale,
                   vy |-> vy * Scale, nan |-> FALSE] :
                     x \in SnapBallX, y \in SnapBallY,
                     vx \in SnapBallVx, vy \in SnapBallVy}
    \* the push-out of the tick before has left the ball clear of the bodies
    /\ ~Collides(player, ball)
    /\ ~Collides(cpu, ball)
    /\ keys \in SnapKeys
    /\ scoreRef = [player |-> 0, cpu |-> 0]
    /\ gameState = PLAYING
    /\ score = [player |-> 0, cpu |-> 0]
    /\ commentary = [text |-> WelcomeText, mood |-> "excited"]
    /\ isCommentating = FALSE
    /\ timerPending = FALSE
    /\ ai = TRUE
    /\ issued = <<>>
    /\ pending = {}
    /\ settled = <<>>
    /\ ticks = 0
    /\ keyEvents = 0
    /\ lastOp = "init"

\* one pass of update on the snapshot
SnapTick == lastOp = "init" /\ Tick

SnapSpec == SnapInit /\ [][SnapTick]_vars

-----------------------------------------------------------------------------
(* Properties *)

\* the ball of this tick after collision resolution, before the scoring test
Landing == MovedBall(player, cpu, ball, keys)

\* this step is a PLAYING tick in which the ball reached the floor
ScoringTick == gameState = PLAYING /\ ticks' # ticks /\ ReachedFloor(Landing)

C2_BodiesInBounds ==
    /\ player.x >= PLAYER_RADIUS
    /\ player.x <= NET_X - PLAYER_RADIUS
    /\ cpu.x >= NET_X + PLAYER_RADIUS
    /\ cpu.x <= CANVAS_WIDTH - PLAYER_RADIUS

\* the right key is down and the player, still moving right, is held at the
\* net
C2_Witness ==
    /\ lastOp = "tick"
    /\ RightHeld(keys)
    /\ player.vx = MOVE_SPEED
    /\ player.x = NET_X - PLAYER_RADIUS

\* C3: at the end of every tick, after all collision resolution including
\* the push-out of the ball from an overlapping player or cpu, the ball's x
\* lies within [BALL_RADIUS, CANVAS_WIDTH - BALL_RADIUS] = [12, 788].
C3_BallInCourt ==
    ~ball.nan => /\ ball.x >= BALL_RADIUS
                 /\ ball.x <= CANVAS_WIDTH - BALL_RADIUS

\* C4: neither score counter ever decreases or is reset, and the sum of the
\* two changes only in a PLAYING tick in which the ball reached the floor,
\* and then by exactly 1.
C4_ScoreMonotone ==
    [][/\ scoreRef'.player >= scoreRef.player
       /\ scoreRef'.cpu >= scoreRef.cpu
       /\ score'.player >= score.player
       /\ score'.cpu >= score.cpu
       /\ scoreRef'.player + scoreRef'.cpu # scoreRef.player + scoreRef.cpu
            => /\ ScoringTick
               /\ scoreRef'.player + scoreRef'.cpu
                     = scoreRef.player + scoreRef.cpu + 1
       /\ score'.player + score'.cpu # score.player + score.cpu
            => /\ ScoringTick
               /\ score'.player + score'.cpu = score.player + score.cpu + 1
      ]_vars

\* the second point in a row of the cpu has just been scored
C4_Witness ==
    /\ lastOp = "tick"
    /\ scoreRef = [player |-> 0, cpu |-> 2]
    /\ score = [player |-> 0, cpu |-> 2]

\* C5: the phase starts at MENU and changes only MENU -> PLAYING (start
\* action), PLAYING -> POINT_SCORED (in a tick in which the ball reached the
\* floor) and POINT_SCORED -> PLAYING (delay timer); GAME_OVER is never
\* reached and MENU is never re-entered.
C5_PhaseTransitions ==
    /\ gameState = MENU
    /\ [](gameState # GAME_OVER)
    /\ [][gameState' # gameState =>
            \/ /\ gameState = MENU /\ gameState' = PLAYING
               /\ lastOp' = "start"
            \/ /\ gameState = PLAYING /\ gameState' = POINT_SCORED
               /\ ScoringTick
            \/ /\ gameState = POINT_SCORED /\ gameState' = PLAYING
               /\ lastOp' = "timer"
         ]_vars

\* the delay timer has just resumed play after a point
C5_Witness ==
    /\ lastOp = "timer"
    /\ gameState = PLAYING
    /\ scoreRef.player + scoreRef.cpu >= 1

\* C6: whenever the phase is POINT_SCORED it eventually becomes PLAYING
\* again, with no user input and whether or not the commentary request has
\* completed, provided the timer fires; and the armed timer is cancelled
\* only by a phase change.
C6_PauseEnds ==
    /\ (gameState = POINT_SCORED) ~> (gameState = PLAYING)
    /\ [][timerPending /\ ~timerPending' => gameState' # gameState]_vars

\* play has resumed although the commentary request of the point is still
\* in flight
C6_Witness ==
    /\ lastOp = "timer"
    /\ gameState = PLAYING
    /\ pending # {}
    /\ isCommentating

\* C7: for every scoring event generateCommentary is called exactly once,
\* and the (playerScore, cpuScore) it receives are the score counters after
\* that point's increment (scoreRef at the time of the call), for any number
\* of previous points and any timing of earlier completions.
C7_CommentaryArgs ==
    /\ Len(issued) = scoreRef.player + scoreRef.cpu
    /\ issued # <<>> =>
         /\ issued[Len(issued)].playerScore = scoreRef.player
         /\ issued[Len(issued)].cpuScore = scoreRef.cpu

\* the second call was made while the first was still in flight
C7_Witness ==
    /\ Len(issued) = 2
    /\ pending = {1, 2}
    /\ issued[2].playerScore + issued[2].cpuScore = 2

\* C8: gameplay does not depend on the commentary service.  A step in which
\* a commentary request settles leaves every gameplay variable unchanged,
\* and whatever the state of the requests (none, in flight, settled well or
\* badly) a tick in which the ball reached the floor completes the serve
\* reset and the transition to POINT_SCORED within that tick.
C8_GameplayIndependent ==
    [][/\ (pending' # pending /\ Cardinality(pending') < Cardinality(pending))
            => UNCHANGED gameVars
       /\ (commentary' # commentary \/ settled' # settled)
            => UNCHANGED gameVars
       /\ ScoringTick =>
            /\ player' = ResetBody(200 * Scale)
            /\ cpu' = ResetBody(600 * Scale)
            /\ ball' = ServeBall(IF Landing.x < NET_X THEN "player" ELSE "cpu")
            /\ gameState' = POINT_SCORED
            /\ scoreRef'.player + scoreRef'.cpu
                 = scoreRef.player + scoreRef.cpu + 1
      ]_vars

\* a point has been scored and served while the request of the point before
\* was still in flight
C8_Witness ==
    /\ lastOp = "tick"
    /\ gameState = POINT_SCORED
    /\ 1 \in pending
    /\ scoreRef.player + scoreRef.cpu = 2

\* the calls settled so far for which the service was unavailable
Unavailable == {j \in 1..Len(settled) : settled[j].kind # "ok"}

\* what generateCommentary returns for a failure of kind k
FallbackOf(k) == GenerateCommentary(k # "noClient", k, "neutral", ReplyText(0))

\* C9 as stated: whenever the service is unavailable (no client, transport
\* error, empty response, unparsable payload) generateCommentary resolves
\* with one and the same fallback tuple, identical across the failure kinds.
C9_OneFallback ==
    \A j \in Unavailable :
        \A k \in Failures \cup {"noClient"} :
            settled[j].result = FallbackOf(k)

\* C9 as amended: whenever the service is unavailable generateCommentary
\* resolves, never rejects, with mood 'neutral' and a fixed text that
\* depends only on whether the client exists: "AI Commentary unavailable
\* (Check API Key)." without a client, "Was fuer ein Spiel! (AI Offline)"
\* for a transport error, an empty response or an unparsable payload; the
\* same tuple across repeated failures.
C9_FallbackByClient ==
    \A j \in Unavailable :
        /\ settled[j].result.settles = "resolved"
        /\ settled[j].result.value.mood = "neutral"
        /\ settled[j].result.value.text =
             IF ai
             THEN <<"Was fuer ein Spiel! (AI Offline)", 0>>
             ELSE <<"AI Commentary unavailable (Check API Key).", 0>>

\* two requests have failed in different ways
C9_Witness ==
    /\ Len(settled) = 2
    /\ settled[1].kind = "transport"
    /\ settled[2].kind = "unparsable"
    /\ commentary.mood = "neutral"

\* C10: when commentary requests overlap, the commentary displayed is the
\* response of the request that completed most recently, whatever the order
\* in which the requests were issued; once all have completed the display
\* holds the last-completing response.
C10_LastWriteWins ==
    settled # <<>> => commentary = settled[Len(settled)].result.value

\* two overlapping requests completed in the reverse order: the reply to the
\* first call is displayed
C10_Witness ==
    /\ Len(settled) = 2
    /\ settled[1].call = 2
    /\ settled[2].call = 1
    /\ settled[2].kind = "ok"
    /\ commentary.text = ReplyText(1)
    /\ pending = {}

-----------------------------------------------------------------------------
(* Collisions of the tick about to run *)

\* the rounding of the fixed-point arithmetic, in velocity units
Tolerance == Scale \div 20

\* the bodies of this tick after movement, and the ball each of them meets
HitterPlayer == MovedPlayer(player, keys)
HitterCpu    == MovedCpu(cpu, ball)
BallAtPlayer == BallPhysics(ball)
BallAtCpu    == CheckCircleCollision(HitterPlayer, BallAtPlayer)

\* c1 and c2 collide at a distance greater than 0
Hits(c1, c2) == Collides(c1, c2) /\ ~(c1.x = c2.x /\ c1.y = c2.y)

\* the component of the velocity (vx, vy) along the outward normal of the
\* collision of c1 and c2, from the centre of c1 to the centre of c2
Outward(c1, c2, vx, vy) ==
    LET dx == c1.x - c2.x
        dy == c1.y - c2.y
        d  == Max(Sqrt(dx * dx + dy * dy), 1)
        nx == RDiv(dx * NormScale, d)
        ny == RDiv(dy * NormScale, d)
    IN  RDiv(-(vx * nx + vy * ny), NormScale)

\* the outward component of the ball's velocity after the collision
OutwardAfter(c1, c2) ==
    LET after == CheckCircleCollision(c1, c2)
    IN  Outward(c1, c2, after.vx, after.vy)

\* the same without the body's influence (half its velocity) and the kick
\* (0, -4) that lines 80-81 add to the pop
OutwardPop(c1, c2) ==
    LET after == CheckCircleCollision(c1, c2)
    IN  Outward(c1, c2, after.vx - RDiv(c1.vx, 2),
                after.vy - RDiv(c1.vy, 2) + 4 * Scale)

\* what the body's influence and the kick add along the outward normal
OutwardExtra(c1, c2) ==
    Outward(c1, c2, RDiv(c1.vx, 2), RDiv(c1.vy, 2) - 4 * Scale)

\* C11 as stated: in every player-ball or cpu-ball collision at a distance
\* greater than 0 the ball's resulting velocity has a component of at least
\* 14 along the outward collision normal, whatever the body's velocity and
\* the ball's incoming velocity.
C11_EnergyFloor ==
    gameState = PLAYING =>
      /\ Hits(HitterPlayer, BallAtPlayer) =>
            OutwardAfter(HitterPlayer, BallAtPlayer) >= 14 * Scale - Tolerance
      /\ Hits(HitterCpu, BallAtCpu) =>
            OutwardAfter(HitterCpu, BallAtCpu) >= 14 * Scale - Tolerance

\* the floor that holds for one body c1 and the ball c2 it meets
PopFloor(c1, c2) ==
    Hits(c1, c2) =>
      /\ OutwardPop(c1, c2) >= 14 * Scale - Tolerance
      /\ Abs(OutwardAfter(c1, c2) - OutwardPop(c1, c2) - OutwardExtra(c1, c2))
            <= Tolerance

\* C11 as amended: in every such collision the pop alone, that is the
\* resulting velocity less half the body's velocity and the kick (0, -4),
\* has a component of at least 14 along the outward normal; the resulting
\* velocity's own component is that plus the outward component of half the
\* body's velocity and of the kick, and falls below 14 when the body moves
\* away from the ball or the ball is hit from above.
C11_PopFloor ==
    gameState = PLAYING =>
      /\ PopFloor(HitterPlayer, BallAtPlayer)
      /\ PopFloor(HitterCpu, BallAtCpu)

\* the ball rests against c1: their centres are the sum of the radii apart,
\* as the push-out of lines 84-86 leaves them
Touching(c1, c2) ==
    LET dx == c1.x - c2.x
        dy == c1.y - c2.y
        r  == PLAYER_RADIUS + BALL_RADIUS
    IN  /\ ~c2.nan /\ Abs(dx) <= r + 2 /\ Abs(dy) <= r + 2
        /\ Abs(Sqrt(dx * dx + dy * dy) - r) <= 2

\* the player runs to the left and the ball has caught up with it from
\* behind and was pushed out: the ball leaves with less than 13 along the
\* normal, the pop alone being 14
C11_Witness ==
    /\ lastOp = "tick"
    /\ gameState = PLAYING
    /\ Touching(player, ball)
    /\ player.vx = -MOVE_SPEED
    /\ ball.x > player.x
    /\ Outward(player, ball, ball.vx, ball.vy) < 13 * Scale
    /\ Outward(player, ball, ball.vx - RDiv(player.vx, 2),
               ball.vy - RDiv(player.vy, 2) + 4 * Scale)
          >= 14 * Scale - Tolerance

\* C12: no tick ends with the ball at or below the floor: in every state
\* ball.pos.y is a number below CANVAS_HEIGHT - BALL_RADIUS = 388, because a
\* tick in which the ball reaches that line re-serves it at y = 250; in
\* particular the ball is never below the floor line y = 400.
C12_BallAboveFloor ==
    /\ ~ball.nan
    /\ ball.y < CANVAS_HEIGHT - BALL_RADIUS
    /\ ball.y <= CANVAS_HEIGHT

\* the ball came down on the player's side and has been re-served in the
\* same tick
C12_Witness ==
    /\ lastOp = "tick"
    /\ gameState = POINT_SCORED
    /\ scoreRef.cpu >= 1
    /\ ball.y = 250 * Scale
    /\ ball.vy = -9 * Scale

-----------------------------------------------------------------------------
(* The opponent controller *)

\* what the controller of lines 108-140 decides for the cpu c and the ball b
ControllerOutput(c, b) == [vx |-> CpuAI(c, b).vx, jumps |-> CpuJumps(c, b)]

\* the bodies play can put at the position of c: on the floor line a body is
\* grounded, or in the 47th tick of a jump, falling and not yet grounded
SamePosition(c) ==
    {c} \cup {d \in {ResetBody(c.x), BodyAfterJump(c.x, 47)} : d.y = c.y}

\* the ball is where the cpu jumps at it
InJumpZone(c, b) ==
    /\ ~b.nan /\ b.x > NET_X /\ Abs(b.x - c.x) < 50 * Scale
    /\ b.y > 200 * Scale /\ b.y < 350 * Scale

\* C13 as stated: the controller's output is a function of the ball's and
\* the opponent's position only: an opponent at the same position, whatever
\* the rest of its state, gets the same horizontal velocity and the same
\* jump decision.
C13_PositionsOnly ==
    gameState = PLAYING =>
      \A d \in SamePosition(cpu) :
          ControllerOutput(d, ball) = ControllerOutput(cpu, ball)

\* velocities a snapshot is varied over
VariedBodyVx == {-CPU_SPEED, 0, CPU_SPEED}
VariedBodyVy == {0} \cup {JUMP_FORCE + k * GRAVITY : k \in {1, 8, 24, 40, 47}}
VariedBallV  == {-10 * Scale, 0, 14 * Scale}

\* C13 as amended: the controller's output is a function of the ball's
\* position, the opponent's position and the opponent's onGround flag only:
\* it is the same whatever the velocities of the opponent and of the ball.
C13_PositionsAndGrounded ==
    gameState = PLAYING =>
      \A vx \in VariedBodyVx, vy \in VariedBodyVy :
        \A bvx \in VariedBallV, bvy \in VariedBallV :
          ControllerOutput([cpu EXCEPT !.vx = vx, !.vy = vy],
                           [ball EXCEPT !.vx = bvx, !.vy = bvy])
            = ControllerOutput(cpu, ball)

\* a tick has brought the cpu back to the floor line, not yet grounded, with
\* the ball where a grounded cpu at the same position jumps
C13_Witness ==
    /\ lastOp = "tick"
    /\ gameState = PLAYING
    /\ cpu.y = CANVAS_HEIGHT
    /\ ~cpu.onGround
    /\ InJumpZone(cpu, ball)
    /\ ~ControllerOutput(cpu, ball).jumps
    /\ ControllerOutput(ResetBody(cpu.x), ball).jumps

-----------------------------------------------------------------------------
(* The pop force *)

\* max(14, 1.1 x speed) for the speed of the body c1
BodyPopForce(c1) ==
    Max(14 * Scale, RDiv(Sqrt(c1.vx * c1.vx + c1.vy * c1.vy) * 11, 10))

\* the pop of the collision of c1 and c2 comes from the body's speed, and
\* the ball leaves with the same velocity whatever velocity it came with
ForceFromBody(c1, c2) ==
    Hits(c1, c2) =>
      /\ Abs(OutwardPop(c1, c2) - BodyPopForce(c1)) <= Tolerance
      /\ \A vx \in VariedBallV, vy \in VariedBallV :
            LET other == CheckCircleCollision(c1, [c2 EXCEPT !.vx = vx,
                                                             !.vy = vy])
                after == CheckCircleCollision(c1, c2)
            IN  other.vx = after.vx /\ other.vy = after.vy

\* C14: the pop force of a body-ball collision is max(14, 1.1 x speed of the
\* colliding player or cpu); it does not depend on the ball's incoming
\* velocity, so the same body velocity and geometry give the same outgoing
\* ball velocity for every incoming ball velocity.
C14_ForceFromBody ==
    gameState = PLAYING =>
      /\ ForceFromBody(HitterPlayer, BallAtPlayer)
      /\ ForceFromBody(HitterCpu, BallAtCpu)

-----------------------------------------------------------------------------
(* The net *)

\* the ball of this tick when it meets the net: after integration and the
\* wall and ceiling bounces
BallAtNet == CeilingBounce(WallBounce(BallIntegrate(ball)))

\* the net-side collision of lines 215-222 resolves in the tick about to run
NetSideResolves ==
    /\ gameState = PLAYING
    /\ ~ball.nan
    /\ ~HitsNetTop(BallAtNet)
    /\ HitsNetSide(BallAtNet)

\* C15: when the net-side collision resolves, the ball is placed just
\* outside the net face on the side it was on before this tick's
\* integration: a ball below the net top does not change sides in the tick,
\* whatever its horizontal speed.
C15_NetSideKeepsSide ==
    NetSideResolves =>
      /\ BallPhysics(ball).x = (IF ball.x < NET_X
                                THEN NET_X - BALL_RADIUS - NET_POST
                                ELSE NET_X + BALL_RADIUS + NET_POST)
      /\ (BallPhysics(ball).x < NET_X) = (ball.x < NET_X)

-----------------------------------------------------------------------------
(* Jumps *)

\* this step is a PLAYING tick that does not end with a point
RallyTick == gameState = PLAYING /\ ticks' # ticks /\ ~ReachedFloor(Landing)

\* the body that was c has started a jump in this tick and is d now
JumpStarted(c, d) ==
    /\ c.onGround
    /\ ~d.onGround
    /\ d.vy = JUMP_FORCE + GRAVITY
    /\ d.y = c.y + JUMP_FORCE + GRAVITY

\* C16: in every PLAYING tick the cpu starts a jump (vertical velocity set
\* to JUMP_FORCE, onGround cleared) if and only if at the start of the tick
\* ball.x > NET_X, |ball.x - cpu.x| < 50, 200 < ball.y < 350 and cpu.onGround;
\* an airborne cpu keeps falling under gravity and starts no jump.
C16_CpuJumpIff ==
    [][RallyTick =>
         /\ JumpStarted(cpu, cpu') <=>
               /\ ~ball.nan
               /\ ball.x > NET_X
               /\ Abs(ball.x - cpu.x) < 50 * Scale
               /\ ball.y > 200 * Scale
               /\ ball.y < 350 * Scale
               /\ cpu.onGround
         /\ ~cpu.onGround =>
               \/ cpu'.vy = cpu.vy + GRAVITY /\ ~cpu'.onGround
               \/ cpu'.vy = 0 /\ cpu'.onGround /\ cpu'.y = CANVAS_HEIGHT
      ]_vars

\* the cpu has just left the ground for the ball above its side
C16_Witness ==
    /\ lastOp = "tick"
    /\ gameState = PLAYING
    /\ ~cpu.onGround
    /\ cpu.vy = JUMP_FORCE + GRAVITY
    /\ cpu.y = CANVAS_HEIGHT + JUMP_FORCE + GRAVITY
    /\ ball.x > NET_X

-----------------------------------------------------------------------------
(* The order of controller and physics *)

\* where the horizontal velocity vx takes the cpu c in one integration
CpuXAfter(c, vx) == NetCollisionCpu(WallCollision([c EXCEPT !.x = c.x + vx])).x

\* the bodies and the ball are where resetPositions puts them
JustServed ==
    /\ player = ResetBody(200 * Scale)
    /\ cpu = ResetBody(600 * Scale)
    /\ ball \in {ServeBall("player"), ServeBall("cpu")}

\* C17 as stated: the controller runs after integration and collision
\* resolution: a tick moves the opponent by the velocity chosen in the tick
\* before, and leaves it with the velocity chosen from this tick's
\* post-collision positions; in the first tick after a serve reset the
\* opponent does not move.
C17_ControllerAfterPhysics ==
    [][RallyTick =>
         /\ cpu'.x = CpuXAfter(cpu, cpu.vx)
         /\ cpu'.vx = ControllerOutput(cpu', ball').vx
         /\ JustServed => cpu'.x = cpu.x
      ]_vars

\* C17 as amended: the controller runs before integration, on the positions
\* of the start of the tick (the post-collision positions of the tick
\* before, or the serve positions), and the velocity it chooses moves the
\* opponent in the same tick; in the first tick after a serve reset the
\* opponent moves by MOVE_SPEED * 0.85 = 5.1 to the right.
C17_ControllerBeforePhysics ==
    [][RallyTick =>
         /\ cpu'.vx = ControllerOutput(cpu, ball).vx
         /\ cpu'.x = CpuXAfter(cpu, cpu'.vx)
         /\ JustServed => cpu'.x = cpu.x + CPU_SPEED
      ]_vars

\* the first tick after the serve reset of a point has moved the opponent
C17_Witness ==
    /\ lastOp = "tick"
    /\ gameState = PLAYING
    /\ Points >= 1
    /\ player = ResetBody(200 * Scale)
    /\ ball.y = 250 * Scale + ball.vy
    /\ ball.vy = Drag(-9 * Scale + RDiv(GRAVITY * 8, 10))
    /\ cpu.x = 600 * Scale + CPU_SPEED
    /\ cpu.vx = CPU_SPEED

-----------------------------------------------------------------------------
(* Ticks outside play *)

\* C18: a tick executed while the phase is not PLAYING (MENU or
\* POINT_SCORED) leaves the positions, velocities and onGround flags of the
\* player, the cpu and the ball, both score counters and the phase
\* unchanged and issues no commentary request, whatever keys are held.
C18_IdleTick ==
    [][lastOp' = "idle" =>
         /\ gameState # PLAYING
         /\ UNCHANGED <<player, cpu, ball, scoreRef, score, gameState,
                        issued, pending, keys>>
      ]_vars

\* a tick has run during the pause after a point with a key held down
C18_Witness ==
    /\ lastOp = "idle"
    /\ gameState = POINT_SCORED
    /\ keys # {}
    /\ ball \in {ServeBall("player"), ServeBall("cpu")}

-----------------------------------------------------------------------------
(* The in-flight indicator *)

-----------------------------------------------------------------------------
(* Bodies and the floor *)

\* the body c is on or above the floor, and at rest on it when grounded
OnOrAboveFloor(c) ==
    /\ c.y <= CANVAS_HEIGHT
    /\ c.onGround => c.y = CANVAS_HEIGHT /\ c.vy = 0

\* the body that was c and is d after a tick got the jump impulse only if it
\* was grounded; in the air it fell under gravity or landed
JumpsFromGround(c, d) ==
    /\ d.vy = JUMP_FORCE + GRAVITY => c.onGround
    /\ ~c.onGround =>
          \/ d.vy = c.vy + GRAVITY /\ d.y = c.y + d.vy /\ ~d.onGround
          \/ d.vy = 0 /\ d.y = CANVAS_HEIGHT /\ d.onGround

\* C20: at the end of every tick, for the player and the cpu, pos.y <=
\* CANVAS_HEIGHT, and onGround implies pos.y = CANVAS_HEIGHT and vel.y = 0;
\* the jump impulse is applied only to a body whose onGround is true, so no
\* body jumps again before the floor clamp has grounded it.
C20_GroundedJumps ==
    /\ [](OnOrAboveFloor(player) /\ OnOrAboveFloor(cpu))
    /\ [][RallyTick => /\ JumpsFromGround(player, player')
                       /\ JumpsFromGround(cpu, cpu')]_vars

\* the jump key is held and the player has just landed from a jump and been
\* grounded by the floor clamp
C20_Witness ==
    /\ lastOp = "tick"
    /\ gameState = PLAYING
    /\ UpHeld(keys)
    /\ player.onGround
    /\ player.y = CANVAS_HEIGHT
    /\ player.vy = 0

=============================================================================
